---- MODULE Spec2Model ----
(***************************************************************************)
(* Model of IMM-Seg's ViT (src/networks/nets/vit.py) and of the epoch      *)
(* drivers train_epoch / val_epoch (src/utils/trainer.py).                 *)
(*                                                                         *)
(* Tensors are abstracted: a token tensor is the sequence of operations    *)
(* that produced it, a metric tensor is a sequence of per-sample rows, and *)
(* a tensor entry is an exact fraction <<numerator, denominator>> in       *)
(* lowest terms, <<0, 0>> standing for NaN.                                *)
(***************************************************************************)
EXTENDS Integers, Sequences, FiniteSets, TLC

VARIABLES
    \* ---- ViT object and the forward call in progress
    vit_state,          \* "none" | "ok" | "error": outcome of ViT.__init__
    ctor_args,          \* the arguments __init__ was called with
    self_norm_type,     \* self.norm_type
    self_blocks,        \* self.blocks, as the sequence of block indices
    has_cls_token,      \* hasattr(self, "cls_token")
    has_head,           \* hasattr(self, "classification_head")
    fwd_pc,             \* position inside ViT.forward
    fwd_mod,            \* the modalities argument of the current call
    x,                  \* the local x of forward
    hidden_states_out,  \* the list forward builds
    blk_i,              \* number of blocks already applied in this call
    fwd_trace,          \* sub-modules invoked by the current call, in order
    fwd_ret,            \* what the last finished call returned or raised
    fwd_calls,          \* number of forward calls started
    \* ---- train_epoch
    tr_pc,              \* "idle" | "loop" | "after" | "done"
    tr_amp,             \* the amp argument
    tr_loader,          \* the batches the loader yields
    tr_idx,             \* batches consumed from the loader
    tr_run_loss,        \* buffer of the LossMetric run_loss
    tr_events,          \* calls made on model, criterion, optimizer and scaler
    tr_ret,             \* the returned epoch_loss
    \* ---- val_epoch: the injected objects, which outlive a call
    acc_func,           \* buffer of acc_func: one per-class row per sample
    surface_distance,   \* buffer of surface_distance, likewise
    add_metric,         \* buffer of the one additional metric
    \* ---- val_epoch: the call in progress
    v_pc,               \* "idle" | "loop" | "reduced" | "done" | "raised"
    v_cfg,              \* which optional arguments are not None
    v_idx,              \* batches fully processed
    v_seen,             \* samples in the batches fully processed
    v_total,            \* samples processed over all calls
    v_calls,            \* number of val_epoch calls started
    run_loss,           \* buffer of the LossMetric run_loss
    acc_mod_cumulative, \* Cumulative(): parallel buffers data, mod
    surface_mod_cumulative,
    v_acc_m,            \* acc_m and not_nans of each modality m
    v_surf_m,           \* surf_m and not_nans of each modality m
    v_log,              \* what logger.log received in this call
    v_accuracy,         \* accuracy, not_nans = acc_func.aggregate()
    v_surface,          \* surface, not_nans_surface = surface_distance.aggregate()
    v_ret,              \* the returned tuple
    v_modality          \* the local modality: "None" or "tensor"

vitVars == <<vit_state, ctor_args, self_norm_type, self_blocks, has_cls_token,
             has_head, fwd_pc, fwd_mod, x, hidden_states_out, blk_i,
             fwd_trace, fwd_ret, fwd_calls>>

trainVars == <<tr_pc, tr_amp, tr_loader, tr_idx, tr_run_loss, tr_events, tr_ret>>

valVars == <<acc_func, surface_distance, add_metric, v_pc, v_cfg, v_idx, v_seen,
             v_total, v_calls, run_loss, acc_mod_cumulative,
             surface_mod_cumulative, v_acc_m, v_surf_m, v_log, v_accuracy,
             v_surface, v_ret, v_modality>>

vars == <<vitVars, trainVars, valVars>>

\* ---------------------------------------------------------------- bounds
MaxHidden == 4
MaxHeads == 3
MaxLayers == 2
MaxFwdCalls == 2
MaxTrainBatches == 3
MaxValSamples == 3
MaxValCalls == 2

\* dropout_rate as an exact fraction <<n, d>> with d > 0
DropoutRates == {<<-1, 10>>, <<0, 1>>, <<1, 2>>, <<1, 1>>, <<11, 10>>}

\* norm_type is a bare name or a (name, options) tuple
NormTypeArgs ==
    {[is_tuple |-> FALSE, items |-> <<n>>] : n \in {"layer", "instance", "instance_cond"}}
    \cup {[is_tuple |-> TRUE, items |-> <<n, "opts">>] : n \in {"layer", "instance_cond"}}

ModalityArgs == {"None", "mod0", "mod1"}

CtorArgs ==
    [dropout_rate : DropoutRates, hidden_size : 1..MaxHidden, num_heads : 1..MaxHeads,
     num_layers : 0..MaxLayers, classification : BOOLEAN, norm_type : NormTypeArgs]

NoArgs ==
    [dropout_rate |-> <<0, 1>>, hidden_size |-> 1, num_heads |-> 1, num_layers |-> 0,
     classification |-> FALSE, norm_type |-> [is_tuple |-> FALSE, items |-> <<"layer">>]]

\* ---------------------------------------------------------------- ViT.__init__
\* not (0 <= dropout_rate <= 1)
DropoutOutOfRangeStrict(r) == ~(0 < r[1] /\ r[1] < r[2])

DropoutOutOfRange(r) == ~(0 <= r[1] /\ r[1] <= r[2])

\* hidden_size % num_heads != 0
NotDivisible(hidden_size, num_heads) == hidden_size % num_heads # 0

\* the two raise statements at the head of __init__
CtorRaises(a) ==
    \/ DropoutOutOfRange(a.dropout_rate)
    \/ NotDivisible(a.hidden_size, a.num_heads)

\* self.norm_type = norm_type[0] if isinstance(norm_type, Tuple) else norm_type
SavedNormType(nt) == nt.items[1]

\* [TransformerBlock(...) for i in range(num_layers)]
MakeBlocks(num_layers) == [i \in 1..num_layers |-> i - 1]

Construct ==
    /\ vit_state = "none"
    /\ \E a \in CtorArgs :
        /\ ctor_args' = a
        /\ IF CtorRaises(a)
           THEN /\ vit_state' = "error"
                /\ UNCHANGED <<self_norm_type, self_blocks, has_cls_token, has_head>>
           ELSE /\ vit_state' = "ok"
                /\ self_norm_type' = SavedNormType(a.norm_type)
                /\ self_blocks' = MakeBlocks(a.num_layers)
                /\ has_cls_token' = a.classification
                /\ has_head' = a.classification
    /\ UNCHANGED <<fwd_pc, fwd_mod, x, hidden_states_out, blk_i, fwd_trace,
                   fwd_ret, fwd_calls>>
    /\ UNCHANGED <<trainVars, valVars>>

\* ---------------------------------------------------------------- ViT.forward
Op(name, i, mod) == [op |-> name, i |-> i, mod |-> mod]

NoRet == [raised |-> FALSE, x |-> <<>>, hs |-> <<>>]

\* if self.norm_type == "instance_cond" and modalities is None: raise
MissingModalityAnyNorm(norm, mod) == mod = "None"

MissingModality(norm, mod) == norm = "instance_cond" /\ mod = "None"

\* hidden_states_out = []
NewHiddenStatesKept(old) == old

NewHiddenStates(old) == <<>>

\* hidden_states_out.append(x), x being the block's output
AppendHidden(hs, before, after) == Append(hs, after)

ForwardCall ==
    /\ vit_state = "ok"
    /\ fwd_pc \in {"idle", "done", "raised"}
    /\ fwd_calls < MaxFwdCalls
    /\ fwd_calls' = fwd_calls + 1
    /\ \E m \in ModalityArgs :
        /\ fwd_mod' = m
        /\ fwd_trace' = <<>>
        /\ blk_i' = 0
        /\ x' = <<Op("input", fwd_calls + 1, "None")>>
        /\ IF MissingModality(self_norm_type, m)
           THEN /\ fwd_pc' = "raised"
                /\ fwd_ret' = [raised |-> TRUE, x |-> <<>>, hs |-> <<>>]
           ELSE /\ fwd_pc' = "embed"
                /\ UNCHANGED fwd_ret
    /\ UNCHANGED <<vit_state, ctor_args, self_norm_type, self_blocks,
                   has_cls_token, has_head, hidden_states_out>>
    /\ UNCHANGED <<trainVars, valVars>>

\* x = self.patch_embedding(x); optional cls token; hidden_states_out = []
PatchEmbed ==
    /\ fwd_pc = "embed"
    /\ LET e == Append(x, Op("patch_embedding", 0, "None"))
       IN  x' = IF has_cls_token THEN Append(e, Op("cls_token", 0, "None")) ELSE e
    /\ fwd_trace' = Append(fwd_trace, "patch_embedding")
    /\ hidden_states_out' = NewHiddenStates(hidden_states_out)
    /\ fwd_pc' = "blocks"
    /\ UNCHANGED <<vit_state, ctor_args, self_norm_type, self_blocks,
                   has_cls_token, has_head, fwd_mod, blk_i, fwd_ret, fwd_calls>>
    /\ UNCHANGED <<trainVars, valVars>>

\* one iteration of: for blk in self.blocks
Block ==
    /\ fwd_pc = "blocks"
    /\ blk_i < Len(self_blocks)
    /\ LET out == Append(x, Op("blk", self_blocks[blk_i + 1], fwd_mod))
       IN  /\ x' = out
           /\ hidden_states_out' = AppendHidden(hidden_states_out, x, out)
    /\ fwd_trace' = Append(fwd_trace, "blk")
    /\ blk_i' = blk_i + 1
    /\ UNCHANGED <<vit_state, ctor_args, self_norm_type, self_blocks,
                   has_cls_token, has_head, fwd_pc, fwd_mod, fwd_ret, fwd_calls>>
    /\ UNCHANGED <<trainVars, valVars>>

\* the final normalization, the optional head and the return
NormalizeAndReturn ==
    /\ fwd_pc = "blocks"
    /\ blk_i = Len(self_blocks)
    /\ LET n == IF self_norm_type = "layer"
                THEN Append(x, Op("norm", 0, "None"))
                ELSE IF self_norm_type = "instance_cond"
                     THEN Append(x, Op("norm_rearranged", 0, fwd_mod))
                     ELSE Append(x, Op("norm_rearranged", 0, "None"))
           r == IF has_head THEN Append(n, Op("classification_head", 0, "None")) ELSE n
       IN  /\ x' = r
           /\ fwd_ret' = [raised |-> FALSE, x |-> r, hs |-> hidden_states_out]
    /\ fwd_trace' = Append(fwd_trace, "norm")
    /\ fwd_pc' = "done"
    /\ UNCHANGED <<vit_state, ctor_args, self_norm_type, self_blocks,
                   has_cls_token, has_head, fwd_mod, hidden_states_out, blk_i,
                   fwd_calls>>
    /\ UNCHANGED <<trainVars, valVars>>

\* ---------------------------------------------------------------- ViT claims
Divides(k, n) == \E q \in 0..n : q * k = n

\* C1: __init__ raises exactly when dropout_rate lies outside [0, 1] or
\* hidden_size is not a multiple of num_heads; every other combination,
\* the boundary rates 0 and 1 included, is constructed.
C1_CtorRejectsExactly ==
    vit_state # "none" =>
        LET r == ctor_args.dropout_rate
            bad == \/ r[1] < 0
                   \/ r[1] > r[2]
                   \/ ~Divides(ctor_args.num_heads, ctor_args.hidden_size)
        IN  (vit_state = "error") <=> bad

C1_Witness ==
    /\ vit_state = "ok"
    /\ ctor_args.dropout_rate = <<1, 1>>
    /\ ctor_args.hidden_size = 4
    /\ ctor_args.num_heads = 2

\* C2: forward raises the missing-modality error exactly when the model's
\* normalization name is "instance_cond" and no modalities are passed, and
\* it raises before patch embedding or any block has run.
C2_MissingModalityFirst ==
    fwd_calls > 0 =>
        LET cond == ctor_args.norm_type.items[1] = "instance_cond" /\ fwd_mod = "None"
        IN  /\ (fwd_pc = "raised") <=> cond
            /\ fwd_pc = "raised" =>
                  /\ fwd_trace = <<>>
                  /\ fwd_ret.raised
                  /\ fwd_ret.hs = <<>>

C2_Witness ==
    /\ fwd_pc = "raised"
    /\ ctor_args.norm_type.is_tuple
    /\ fwd_calls = 2

\* C3: a forward call that returns hands back exactly num_layers hidden
\* states, entry i being the output of block i of this call (before the
\* final normalization and the head), for every norm type and either
\* classification setting, with nothing left over from an earlier call.
C3_HiddenStatesPerBlock ==
    (fwd_pc = "done" /\ ~fwd_ret.raised) =>
        LET n == ctor_args.num_layers
            emb == <<Op("input", fwd_calls, "None"), Op("patch_embedding", 0, "None")>>
            base == IF ctor_args.classification
                    THEN Append(emb, Op("cls_token", 0, "None"))
                    ELSE emb
            hs == fwd_ret.hs
        IN  /\ Len(hs) = n
            /\ \A i \in 1..n :
                  hs[i] = base \o [j \in 1..i |-> Op("blk", j - 1, fwd_mod)]

C3_Witness ==
    /\ fwd_pc = "done"
    /\ fwd_calls = 2
    /\ ctor_args.num_layers = 2
    /\ ctor_args.classification
    /\ Len(fwd_ret.hs) = 2


\* ---------------------------------------------------------------- fractions
\* A tensor entry is an exact fraction <<n, d>>, n >= 0, in lowest terms;
\* d = 0 is NaN.
NaN == <<0, 0>>

Zero == <<0, 1>>

IsNaN(v) == v[2] = 0

RECURSIVE GCD(_, _)
GCD(a, b) == IF b = 0 THEN a ELSE GCD(b, a % b)

Frac(n, d) == IF d = 0 THEN NaN ELSE LET g == GCD(n, d) IN <<n \div g, d \div g>>

FracAdd(a, b) == Frac(a[1] * b[2] + b[1] * a[2], a[2] * b[2])

FracDivInt(a, k) == Frac(a[1], a[2] * k)

RECURSIVE SumSeq(_)
SumSeq(s) == IF s = <<>> THEN Zero ELSE FracAdd(s[1], SumSeq(Tail(s)))

\* ---------------------------------------------------------------- train_epoch
Losses == {<<1, 1>>, <<1, 2>>}

TrainBatches == [loss : Losses, has_modality : BOOLEAN]

TrainLoaders == UNION {[1..n -> TrainBatches] : n \in 1..MaxTrainBatches}

\* run_loss.aggregate(reduction='mean')
MeanLoss(buf) == FracDivInt(SumSeq(buf), Len(buf))

\* the optimizer step of one batch, through the scaler when amp is on
StepEvents(amp) ==
    IF amp
    THEN <<"scaler.scale(loss).backward", "scaler.step(optimizer)", "scaler.update">>
    ELSE <<"loss.backward", "optimizer.step">>

\* the statements of the loop body, in order
BatchEvents(amp) ==
    <<"optimizer.zero_grad", "model", "criterion", "run_loss">> \o StepEvents(amp)

\* the unconditional break that ends the loop body
BreaksAfterBatch == TRUE

TrainStart ==
    /\ tr_pc = "idle"
    /\ \E l \in TrainLoaders, a \in BOOLEAN :
        /\ tr_loader' = l
        /\ tr_amp' = a
    /\ tr_idx' = 0
    /\ tr_run_loss' = <<>>
    /\ tr_events' = <<"model.train">>
    /\ tr_pc' = "loop"
    /\ UNCHANGED tr_ret
    /\ UNCHANGED <<vitVars, valVars>>

\* one pass through the body of: for idx, batch in enumerate(loader)
TrainBatch ==
    /\ tr_pc = "loop"
    /\ tr_idx < Len(tr_loader)
    /\ LET batch == tr_loader[tr_idx + 1]
       IN  /\ tr_run_loss' = Append(tr_run_loss, batch.loss)
           /\ tr_events' = tr_events \o BatchEvents(tr_amp)
    /\ tr_idx' = tr_idx + 1
    /\ tr_pc' = IF BreaksAfterBatch \/ tr_idx + 1 = Len(tr_loader) THEN "after" ELSE "loop"
    /\ UNCHANGED <<tr_amp, tr_loader, tr_ret>>
    /\ UNCHANGED <<vitVars, valVars>>

\* epoch_loss = run_loss.aggregate(...).item(); run_loss.reset(); return
TrainFinish ==
    /\ tr_pc = "after"
    /\ tr_ret' = MeanLoss(tr_run_loss)
    /\ tr_run_loss' = <<>>
    /\ tr_pc' = "done"
    /\ UNCHANGED <<tr_amp, tr_loader, tr_idx, tr_events>>
    /\ UNCHANGED <<vitVars, valVars>>

CountOf(s, e) == Cardinality({i \in 1..Len(s) : s[i] = e})

\* C7: one train_epoch call over a loader of n batches takes exactly one
\* optimizer step per batch (through the scaler under amp, directly
\* otherwise), n in all, and returns the mean loss of all n batches.
C7_StepsEveryBatch ==
    tr_pc = "done" =>
        LET n == Len(tr_loader)
            step == IF tr_amp THEN "scaler.step(optimizer)" ELSE "optimizer.step"
        IN  /\ tr_idx = n
            /\ CountOf(tr_events, "optimizer.zero_grad") = n
            /\ CountOf(tr_events, step) = n
            /\ tr_ret = FracDivInt(SumSeq([i \in 1..n |-> tr_loader[i].loss]), n)

InitTrain ==
    /\ tr_pc = "idle"
    /\ tr_amp = FALSE
    /\ tr_loader = <<>>
    /\ tr_idx = 0
    /\ tr_run_loss = <<>>
    /\ tr_events = <<>>
    /\ tr_ret = NaN

\* ---------------------------------------------------------------- val_epoch
\* One validation sample: its modality, and the rows acc_func,
\* surface_distance and the additional metric compute for it.
SampleCases ==
    { [mod |-> 0, acc |-> <<<<1, 1>>, NaN>>,      surf |-> <<<<2, 1>>, NaN>>,
       extra |-> <<1, 1>>, loss |-> <<1, 2>>],
      [mod |-> 0, acc |-> <<<<1, 2>>, <<1, 1>>>>, surf |-> <<<<3, 1>>, <<1, 1>>>>,
       extra |-> <<1, 2>>, loss |-> <<1, 1>>],
      [mod |-> 1, acc |-> <<NaN, NaN>>,           surf |-> <<NaN, NaN>>,
       extra |-> NaN, loss |-> <<2, 1>>],
      [mod |-> 1, acc |-> <<<<0, 1>>, <<1, 1>>>>, surf |-> <<<<0, 1>>, <<2, 1>>>>,
       extra |-> <<0, 1>>, loss |-> <<1, 1>>],
      [mod |-> 0, acc |-> <<NaN, <<0, 1>>>>,      surf |-> <<<<1, 1>>, <<1, 1>>>>,
       extra |-> <<1, 1>>, loss |-> <<3, 1>>] }

\* the batches a loader can yield next: with the "modality" key, holding at
\* most k samples, or without it, holding one sample
ValBatches(k) ==
    [has_modality : {TRUE}, samples : UNION {[1..n -> SampleCases] : n \in 1..k}]
    \cup [has_modality : {FALSE}, samples : [1..1 -> SampleCases]]

\* criterion(output, target): the mean of the samples' losses
Criterion(samples) ==
    FracDivInt(SumSeq([i \in 1..Len(samples) |-> samples[i].loss]), Len(samples))

ValConfigs == [logger : BOOLEAN, surface : BOOLEAN, metrics : BOOLEAN]

EmptyCumulative == [data |-> <<>>, mod |-> <<>>]

NoAggregate == [f |-> <<>>, not_nans |-> <<>>]

NoValRet == [epoch_loss |-> NaN, accuracy |-> NaN, surface |-> NaN, metrics |-> <<>>]

\* Cumulative.append: the whole batch as one entry
CumulativeAppend(buf, items) == Append(buf, items[1])

\* Cumulative.extend: one entry per sample of the batch
CumulativeExtend(buf, items) == buf \o items

\* acc_func(y_pred=..., y=...): the metric buffers the batch's rows
MetricCall(buf, items) == buf \o items

\* acc[mod == m]
RECURSIVE SelectModality(_, _, _)
SelectModality(data, mod, m) ==
    IF data = <<>> THEN <<>>
    ELSE LET rest == SelectModality(Tail(data), Tail(mod), m)
         IN  IF mod[1] = m THEN <<data[1]>> \o rest ELSE rest

\* a count of all selected samples, NaN or not
CountAll(rows, c) == Len(rows)

\* not_nans = (~torch.isnan(acc_m)).float().sum(dim=0), at class c
NotNans(rows, c) == Cardinality({i \in 1..Len(rows) : ~IsNaN(rows[i][c])})

\* acc_m[nans] = 0
ZeroFilled(rows) ==
    [i \in 1..Len(rows) |->
        [c \in 1..Len(rows[i]) |-> IF IsNaN(rows[i][c]) THEN Zero ELSE rows[i][c]]]

\* acc_m.sum(dim=0), at class c
ColSum(rows, c) == SumSeq([i \in 1..Len(rows) |-> rows[i][c]])

\* torch.where(not_nans > 0, acc_m.sum(dim=0) / not_nans, t_zero)
ReducePerClass(rows) ==
    LET z == ZeroFilled(rows)
    IN  [c \in 1..Len(rows[1]) |->
            IF NotNans(rows, c) > 0
            THEN FracDivInt(ColSum(z, c), NotNans(rows, c))
            ELSE Zero]

NotNansPerClass(rows) == [c \in 1..Len(rows[1]) |-> NotNans(rows, c)]

\* torch.nanmean(v): the mean of the entries that are not NaN, NaN if none
NanMean(v) ==
    LET idx == {i \in 1..Len(v) : ~IsNaN(v[i])}
        kept == [i \in 1..Len(v) |-> IF i \in idx THEN v[i] ELSE Zero]
    IN  IF idx = {} THEN NaN ELSE FracDivInt(SumSeq(kept), Cardinality(idx))

\* torch.nanmean(v) over every class, valid or not
UnmaskedNanMean(v, counts) == NanMean(v)

\* torch.nanmean(v[counts > 0])
MaskedNanMean(v, counts) ==
    NanMean([i \in 1..Len(v) |-> IF counts[i] > 0 THEN v[i] ELSE NaN])

\* the body of: for m in torch.unique(mod)
ReduceModality(data, mod, m) ==
    LET rows == SelectModality(data, mod, m)
    IN  [m |-> m, acc_m |-> ReducePerClass(rows), not_nans |-> NotNansPerClass(rows)]

ReduceAll(buf) ==
    {ReduceModality(buf.data, buf.mod, m) : m \in {buf.mod[i] : i \in 1..Len(buf.mod)}}

Key(metric, scope, m, stat, c) ==
    [metric |-> metric, scope |-> scope, m |-> m, stat |-> stat, c |-> c]

\* the two logger.log calls made for one modality
ModalityLog(metric, r) ==
    {[key |-> Key(metric, "modality", r.m, "class", c - 1), value |-> r.acc_m[c]] :
        c \in 1..Len(r.acc_m)}
    \cup {[key |-> Key(metric, "modality", r.m, "avg", 0),
           value |-> MaskedNanMean(r.acc_m, r.not_nans)]}

\* acc_func.aggregate() / surface_distance.aggregate(): per-class values and not_nans
Aggregate(buf) == [f |-> ReducePerClass(buf), not_nans |-> NotNansPerClass(buf)]

\* for c, v in enumerate(accuracy.tolist()): the tensor the total
\* surface-distance entries are read from
TotalSurfaceLogSource(accuracy, surface) == accuracy

TotalLog(metric, f) ==
    {[key |-> Key(metric, "total", 0, "class", c - 1), value |-> f[c]] : c \in 1..Len(f)}

\* model.eval(); run_loss = LossMetric(...); acc_mod_cumulative = Cumulative(); ...
ValStart ==
    /\ v_pc \in {"idle", "done", "raised"}
    /\ v_calls < MaxValCalls
    /\ v_calls' = v_calls + 1
    /\ \E cfg \in ValConfigs :
        /\ v_calls = 0 \/ cfg = v_cfg
        /\ v_cfg' = cfg
    /\ run_loss' = <<>>
    /\ acc_mod_cumulative' = EmptyCumulative
    /\ surface_mod_cumulative' = EmptyCumulative
    /\ v_idx' = 0
    /\ v_seen' = 0
    /\ v_acc_m' = {}
    /\ v_surf_m' = {}
    /\ v_log' = {}
    /\ v_accuracy' = NoAggregate
    /\ v_surface' = NoAggregate
    /\ v_ret' = NoValRet
    /\ v_modality' = "None"
    /\ v_pc' = "loop"
    /\ UNCHANGED <<acc_func, surface_distance, add_metric, v_total>>
    /\ UNCHANGED <<vitVars, trainVars>>

\* one pass through the body of: for idx, batch in enumerate(loader)
ValBatch ==
    /\ v_pc = "loop"
    /\ \E b \in ValBatches(MaxValSamples - v_total) :
        LET n == Len(b.samples)
            mods == [i \in 1..n |-> b.samples[i].mod]
            batch_acc == [i \in 1..n |-> b.samples[i].acc]
            batch_surface == [i \in 1..n |-> b.samples[i].surf]
            batch_extra == [i \in 1..n |-> b.samples[i].extra]
        IN  /\ v_modality' = IF b.has_modality THEN "tensor" ELSE "None"
            /\ run_loss' = Append(run_loss, Criterion(b.samples))
            /\ IF ~b.has_modality
               THEN \* modality is None: modality.tolist() raises
                    /\ v_pc' = "raised"
                    /\ UNCHANGED <<acc_func, surface_distance, add_metric, v_idx, v_seen,
                                   v_total, acc_mod_cumulative, surface_mod_cumulative>>
               ELSE /\ acc_func' = MetricCall(acc_func, batch_acc)
                    /\ acc_mod_cumulative' =
                          [data |-> CumulativeExtend(acc_mod_cumulative.data, batch_acc),
                           mod |-> CumulativeExtend(acc_mod_cumulative.mod, mods)]
                    /\ IF v_cfg.surface
                       THEN /\ surface_distance' = MetricCall(surface_distance, batch_surface)
                            /\ surface_mod_cumulative' =
                                  [data |-> CumulativeExtend(surface_mod_cumulative.data, batch_surface),
                                   mod |-> CumulativeExtend(surface_mod_cumulative.mod, mods)]
                       ELSE UNCHANGED <<surface_distance, surface_mod_cumulative>>
                    /\ IF v_cfg.metrics
                       THEN add_metric' = MetricCall(add_metric, batch_extra)
                       ELSE UNCHANGED add_metric
                    /\ v_idx' = v_idx + 1
                    /\ v_seen' = v_seen + n
                    /\ v_total' = v_total + n
                    /\ UNCHANGED v_pc
    /\ UNCHANGED <<v_cfg, v_calls, v_acc_m, v_surf_m, v_log, v_accuracy, v_surface, v_ret>>
    /\ UNCHANGED <<vitVars, trainVars>>

\* the loader is exhausted: the per-modality reductions and their logging
ValReduce ==
    /\ v_pc = "loop"
    /\ v_idx >= 1
    /\ LET accs == ReduceAll(acc_mod_cumulative)
           surfs == IF v_cfg.surface THEN ReduceAll(surface_mod_cumulative) ELSE {}
       IN  /\ v_acc_m' = accs
           /\ v_surf_m' = surfs
           /\ v_log' = IF v_cfg.logger
                       THEN UNION ({ModalityLog("dice", r) : r \in accs}
                                   \cup {ModalityLog("surface_distance", r) : r \in surfs})
                       ELSE {}
    /\ v_pc' = "reduced"
    /\ UNCHANGED <<acc_func, surface_distance, add_metric, v_cfg, v_idx, v_seen, v_total,
                   v_calls, run_loss, acc_mod_cumulative, surface_mod_cumulative,
                   v_accuracy, v_surface, v_ret, v_modality>>
    /\ UNCHANGED <<vitVars, trainVars>>

\* the global aggregation, its logging, the resets and the return
ValFinish ==
    /\ v_pc = "reduced"
    /\ LET accuracy == Aggregate(acc_func)
           surface == IF v_cfg.surface THEN Aggregate(surface_distance) ELSE NoAggregate
       IN  /\ v_accuracy' = accuracy
           /\ v_surface' = surface
           /\ v_log' = v_log
                \cup (IF v_cfg.logger THEN TotalLog("dice", accuracy.f) ELSE {})
                \cup (IF v_cfg.logger /\ v_cfg.surface
                      THEN TotalLog("surface_distance",
                                    TotalSurfaceLogSource(accuracy.f, surface.f))
                      ELSE {})
           /\ v_ret' = [epoch_loss |-> MeanLoss(run_loss),
                        accuracy |-> MaskedNanMean(accuracy.f, accuracy.not_nans),
                        surface |-> IF v_cfg.surface
                                    THEN MaskedNanMean(surface.f, surface.not_nans)
                                    ELSE NaN,
                        metrics |-> IF v_cfg.metrics THEN <<NanMean(add_metric)>> ELSE <<>>]
    /\ IF v_cfg.surface
       THEN /\ surface_distance' = <<>>
            /\ surface_mod_cumulative' = EmptyCumulative
       ELSE UNCHANGED <<surface_distance, surface_mod_cumulative>>
    /\ run_loss' = <<>>
    /\ acc_func' = <<>>
    /\ acc_mod_cumulative' = EmptyCumulative
    /\ IF v_cfg.metrics THEN add_metric' = <<>> ELSE UNCHANGED add_metric
    /\ v_pc' = "done"
    /\ UNCHANGED <<v_cfg, v_idx, v_seen, v_total, v_calls, v_acc_m, v_surf_m, v_modality>>
    /\ UNCHANGED <<vitVars, trainVars>>

\* ---------------------------------------------------------------- val_epoch claims
RECURSIVE SumOver(_, _)
SumOver(f, S) ==
    IF S = {} THEN Zero
    ELSE LET i == CHOOSE j \in S : TRUE IN FracAdd(f[i], SumOver(f, S \ {i}))

Column(data, c) == [i \in 1..Len(data) |-> data[i][c]]

ModalitiesOf(buf) == {buf.mod[i] : i \in 1..Len(buf.mod)}

\* the samples of modality m whose class-c entry is not NaN
ValidSamples(buf, m, c) ==
    {i \in 1..Len(buf.mod) : buf.mod[i] = m /\ ~IsNaN(buf.data[i][c])}

\* the classes with at least one non-NaN sample in modality m
ValidClasses(buf, m) ==
    {c \in 1..Len(buf.data[1]) : ValidSamples(buf, m, c) # {}}

\* C4: after the per-modality reduction there is one reduced row per
\* modality observed, and its class-c value is the sum of the non-NaN
\* class-c entries of that modality's samples divided by their number,
\* or 0 when there is none.
C4_PerModalityClassMean ==
    v_pc = "reduced" =>
        LET buf == acc_mod_cumulative
        IN  /\ {r.m : r \in v_acc_m} = ModalitiesOf(buf)
            /\ \A r \in v_acc_m :
                  /\ Len(r.acc_m) = Len(buf.data[1])
                  /\ \A c \in 1..Len(r.acc_m) :
                        LET valid == ValidSamples(buf, r.m, c)
                        IN  r.acc_m[c] =
                               IF valid = {} THEN Zero
                               ELSE FracDivInt(SumOver(Column(buf.data, c), valid),
                                               Cardinality(valid))

\* modalities [0,0,1] with accuracies [[1,NaN],[0.5,1],[NaN,NaN]]
C4_Witness ==
    /\ v_pc = "reduced"
    /\ acc_mod_cumulative.mod = <<0, 0, 1>>
    /\ acc_mod_cumulative.data =
          << <<<<1, 1>>, NaN>>, <<<<1, 2>>, <<1, 1>>>>, <<NaN, NaN>> >>
    /\ \E r \in v_acc_m : r.m = 0 /\ r.acc_m = << <<3, 4>>, <<1, 1>> >>
    /\ \E r \in v_acc_m : r.m = 1 /\ r.acc_m = <<Zero, Zero>>

AvgLogged(metric, reduced, buf) ==
    \A r \in reduced :
        LET valid == ValidClasses(buf, r.m)
            logged == {e \in v_log : e.key = Key(metric, "modality", r.m, "avg", 0)}
        IN  /\ Cardinality(logged) = 1
            /\ \A e \in logged :
                  IF valid = {} THEN IsNaN(e.value)
                  ELSE e.value = FracDivInt(SumOver(r.acc_m, valid), Cardinality(valid))

\* C5: with a logger, the average logged for modality m is the mean of the
\* per-class reduced values over the classes that have a non-NaN sample in
\* m; a class with none is left out rather than counted as 0, and when no
\* class has one the logged average is NaN, not a number.
C5_ModalityAvgSkipsInvalid ==
    (v_pc = "reduced" /\ v_cfg.logger) =>
        /\ AvgLogged("dice", v_acc_m, acc_mod_cumulative)
        /\ v_cfg.surface =>
              AvgLogged("surface_distance", v_surf_m, surface_mod_cumulative)

C5_Witness ==
    /\ v_pc = "reduced"
    /\ v_cfg.logger
    /\ acc_mod_cumulative.mod = <<0, 0, 1>>
    /\ acc_mod_cumulative.data =
          << <<<<1, 1>>, NaN>>, <<<<1, 2>>, <<1, 1>>>>, <<NaN, NaN>> >>
    /\ [key |-> Key("dice", "modality", 0, "avg", 0), value |-> <<7, 8>>] \in v_log
    /\ [key |-> Key("dice", "modality", 1, "avg", 0), value |-> NaN] \in v_log

\* C6: inside the loop the per-modality buffer holds one entry per sample
\* of the batches processed so far, and when val_epoch has returned every
\* accumulator it used is empty.
C6_BufferPerSampleAndReset ==
    /\ v_pc = "loop" =>
          /\ Len(acc_mod_cumulative.data) = v_seen
          /\ Len(acc_mod_cumulative.mod) = v_seen
          /\ v_cfg.surface => Len(surface_mod_cumulative.data) = v_seen
    /\ v_pc = "done" =>
          /\ run_loss = <<>>
          /\ acc_func = <<>>
          /\ acc_mod_cumulative = EmptyCumulative
          /\ v_cfg.metrics => add_metric = <<>>
          /\ v_cfg.surface =>
                /\ surface_distance = <<>>
                /\ surface_mod_cumulative = EmptyCumulative

C6_Witness ==
    /\ v_pc = "done"
    /\ v_idx = 2
    /\ v_seen = 3
    /\ v_cfg.surface
    /\ v_cfg.metrics
    /\ v_cfg.logger

\* C8: a batch without the "modality" key never makes val_epoch raise.
C8_ModalityOptional ==
    v_modality = "None" => v_pc # "raised"

\* C9: with a logger and surface distance enabled, the total
\* surface-distance entries logged are, class by class, the values
\* surface_distance.aggregate() returned, one per class of that aggregate.
C9_TotalSurfaceLogged ==
    (v_pc = "done" /\ v_cfg.logger /\ v_cfg.surface) =>
        LET logged == {e \in v_log : e.key.metric = "surface_distance"
                                     /\ e.key.scope = "total"}
        IN  /\ Cardinality(logged) = Len(v_surface.f)
            /\ \A c \in 1..Len(v_surface.f) :
                  [key |-> Key("surface_distance", "total", 0, "class", c - 1),
                   value |-> v_surface.f[c]] \in logged

\* C10: when a val_epoch call starts, the injected accumulators hold no
\* sample of an earlier call, whether that call returned or raised.
C10_NoLeakAcrossCalls ==
    (v_pc = "loop" /\ v_idx = 0) =>
        /\ acc_func = <<>>
        /\ surface_distance = <<>>
        /\ add_metric = <<>>

InitVal ==
    /\ acc_func = <<>>
    /\ surface_distance = <<>>
    /\ add_metric = <<>>
    /\ v_pc = "idle"
    /\ v_cfg = [logger |-> FALSE, surface |-> FALSE, metrics |-> FALSE]
    /\ v_idx = 0
    /\ v_seen = 0
    /\ v_total = 0
    /\ v_calls = 0
    /\ run_loss = <<>>
    /\ acc_mod_cumulative = EmptyCumulative
    /\ surface_mod_cumulative = EmptyCumulative
    /\ v_acc_m = {}
    /\ v_surf_m = {}
    /\ v_log = {}
    /\ v_accuracy = NoAggregate
    /\ v_surface = NoAggregate
    /\ v_ret = NoValRet
    /\ v_modality = "None"

InitViT ==
    /\ vit_state = "none"
    /\ ctor_args = NoArgs
    /\ self_norm_type = ""
    /\ self_blocks = <<>>
    /\ has_cls_token = FALSE
    /\ has_head = FALSE
    /\ fwd_pc = "idle"
    /\ fwd_mod = "None"
    /\ x = <<>>
    /\ hidden_states_out = <<>>
    /\ blk_i = 0
    /\ fwd_trace = <<>>
    /\ fwd_ret = NoRet
    /\ fwd_calls = 0

Init == InitViT /\ InitTrain /\ InitVal

NextViT ==
    \/ Construct
    \/ ForwardCall
    \/ PatchEmbed
    \/ Block
    \/ NormalizeAndReturn

SpecViT == Init /\ [][NextViT]_vars

NextTrain ==
    \/ TrainStart
    \/ TrainBatch
    \/ TrainFinish

SpecTrain == Init /\ [][NextTrain]_vars

NextVal ==
    \/ ValStart
    \/ ValBatch
    \/ ValReduce
    \/ ValFinish

SpecVal == Init /\ [][NextVal]_vars

====
